---- MODULE Spec2Model ----
(***************************************************************************)
(* Model of migrate-to-deployment (src/main.go): MigrateOptions.Run driving *)
(* the three API clients (DeploymentConfigs, Deployments,                   *)
(* ReplicationControllers) for an ordered list of deployment config names.  *)
(*                                                                          *)
(* Run is modelled statement group by statement group.  A Go call through a *)
(* nil func value and a field write through a nil pointer are run-time      *)
(* panics: the goroutine unwinds and Run never returns.                     *)
(***************************************************************************)
EXTENDS Integers, Sequences, FiniteSets

\* ---------------------------------------------------------------- bounds
MaxNames == 2
MaxReplicas == 1
MaxOrdinal == 1
MaxArgs == 3
MaxSnaps == 2
MaxRevision == 2

\* ------------------------------------------------------------ value sets
Names == {"web", "api"}

GetErrors == {"NotFound", "Transport"}
UpdateErrors == {"Conflict", "Transport"}
ConvertErrors == {"UnsupportedStrategy"}
Errors == GetErrors \cup UpdateErrors \cup ConvertErrors \cup {"AlreadyExists", "ValidationError"}

\* Steps of one loop iteration of Run, in program order.
Steps == <<"get", "update", "convert", "create", "list", "migrateHistory">>

\* A DeploymentConfig object as far as Run looks at it; exists = FALSE is
\* the absent resource (client Get answers NotFound) or, for the local
\* variable dc, the value before the fetch.
NoDC == [exists |-> FALSE, name |-> "", paused |-> FALSE, replicas |-> 0]

\* var deployment *appsv1.Deployment: the nil pointer.
NilDeployment == [isNil |-> TRUE, name |-> "", paused |-> FALSE, replicas |-> 0]

\* An absent entry of the Deployments collection.
NoDeployment == [exists |-> FALSE, paused |-> FALSE, replicas |-> 0]

DCStates ==
  {NoDC} \cup [exists : {TRUE}, name : {""}, paused : BOOLEAN, replicas : 1..MaxReplicas]

\* Run never reads a Deployment that is already there; one replica count
\* stands for all.
DeploymentStates ==
  {NoDeployment} \cup [exists : {TRUE}, paused : BOOLEAN, replicas : {1}]

\* The replication controllers labelled with config n when it has rolled
\* k times.
RCsOf(n, k) == {[config |-> n, ordinal |-> i, replicas |-> 1] : i \in 1..k}

NameLists == UNION {[1..k -> Names] : k \in 0..MaxNames}

VARIABLES
  names,          \* m.DeploymentConfigNames
  convertSet,     \* m.convert holds a function (FALSE: the nil func value)
  idx,            \* position of the range loop, 1-based
  pc,             \* statement group Run executes next
  result,         \* "running", "nil" (Run returned nil), an error, "panic"
  dc,             \* local dc
  deployment,     \* local deployment
  dcs,            \* DeploymentConfigs collection of the namespace
  deployments,    \* Deployments collection of the namespace
  rcs,            \* ReplicationControllers collection of the namespace
  replicaSets,    \* objects of the native history
  log,            \* calls Run has issued, in order
  errCtx,         \* resource name carried by the error Run returned, "" if none
  dcs0,           \* DeploymentConfigs collection as it was when Run started
  fn              \* a function of the program applied on its own: input, output

vars == <<names, convertSet, idx, pc, result, dc, deployment, dcs, deployments,
          rcs, replicaSets, log, errCtx, dcs0, fn>>

\* What Run is given and never assigns.
given == <<names, convertSet, dcs0, fn>>

stores == <<dcs, deployments, rcs, replicaSets>>

Entry(op, n, err) == [op |-> op, name |-> n, err |-> err]

\* No function is being applied on its own.
FnIdle == [op |-> "none", in |-> <<>>, out |-> <<>>, done |-> FALSE]

\* NewMigrateCommand builds MigrateOptions{Output: out}: convert and
\* migrateHistory are nil.  convertSet = TRUE is a caller that assigned the
\* field before calling Run.
Init ==
  /\ names \in NameLists
  /\ convertSet \in BOOLEAN
  /\ idx = 1
  /\ pc = "loop"
  /\ result = "running"
  /\ dc = NoDC
  /\ deployment = NilDeployment
  /\ \E f \in [Names -> DCStates] :
       dcs = [n \in Names |-> IF f[n].exists THEN [f[n] EXCEPT !.name = n] ELSE NoDC]
  /\ deployments \in [Names -> DeploymentStates]
  /\ \E k \in [Names -> 0..MaxOrdinal] : rcs = UNION {RCsOf(n, k[n]) : n \in Names}
  /\ replicaSets = {}
  /\ log = <<>>
  /\ errCtx = ""
  /\ dcs0 = dcs
  /\ fn = FnIdle

\* for _, name := range m.DeploymentConfigNames { ... }; return nil
ReturnNil ==
  /\ pc = "loop"
  /\ idx > Len(names)
  /\ pc' = "done"
  /\ result' = "nil"
  /\ UNCHANGED <<given, idx, dc, deployment, stores, log, errCtx>>

\* dc, err := m.OsAppsClient.DeploymentConfigs(ns).Get(name); if err != nil { return err }
GetDC ==
  /\ pc = "loop"
  /\ idx <= Len(names)
  /\ LET name == names[idx] IN
       \E err \in (IF dcs[name].exists THEN {"nil", "Transport"} ELSE GetErrors) :
         /\ log' = Append(log, Entry("get", name, err))
         /\ IF err = "nil"
              THEN /\ dc' = dcs[name]
                   /\ pc' = "pause"
                   /\ result' = result
                   /\ errCtx' = errCtx
              ELSE /\ dc' = dc
                   /\ pc' = "done"
                   /\ result' = err
                   /\ errCtx' \in {"", name}
  /\ UNCHANGED <<given, idx, deployment, stores>>

\* PauseDC with the error of Update ignored: Run goes on to the converter.
PauseDC_IgnoreErr ==
  /\ pc = "pause"
  /\ dc' = [dc EXCEPT !.paused = TRUE]
  /\ \E err \in {"nil"} \cup UpdateErrors :
       /\ log' = Append(log, Entry("update", dc.name, err))
       /\ dcs' = IF err = "nil" THEN [dcs EXCEPT ![dc.name] = dc'] ELSE dcs
       /\ pc' = "convert"
       /\ result' = result
       /\ errCtx' = errCtx
  /\ UNCHANGED <<given, idx, deployment, deployments, rcs, replicaSets>>

\* PauseDC that also removes the replication controllers of the paused config.
PauseDC_DeleteRCs ==
  /\ pc = "pause"
  /\ dc' = [dc EXCEPT !.paused = TRUE]
  /\ \E err \in {"nil"} \cup UpdateErrors :
       /\ log' = Append(log, Entry("update", dc.name, err))
       /\ IF err = "nil"
            THEN /\ dcs' = [dcs EXCEPT ![dc.name] = dc']
                 /\ rcs' = {r \in rcs : r.config # dc.name}
                 /\ pc' = "convert"
                 /\ result' = result
                 /\ errCtx' = errCtx
            ELSE /\ dcs' = dcs
                 /\ rcs' = rcs
                 /\ pc' = "done"
                 /\ result' = err
                 /\ errCtx' \in {"", dc.name}
  /\ UNCHANGED <<given, idx, deployment, deployments, replicaSets>>

\* PauseDC that flips the paused flag instead of setting it.
PauseDC_Toggle ==
  /\ pc = "pause"
  /\ dc' = [dc EXCEPT !.paused = ~dc.paused]
  /\ \E err \in {"nil"} \cup UpdateErrors :
       /\ log' = Append(log, Entry("update", dc.name, err))
       /\ IF err = "nil"
            THEN /\ dcs' = [dcs EXCEPT ![dc.name] = dc']
                 /\ pc' = "convert"
                 /\ result' = result
                 /\ errCtx' = errCtx
            ELSE /\ dcs' = dcs
                 /\ pc' = "done"
                 /\ result' = err
                 /\ errCtx' \in {"", dc.name}
  /\ UNCHANGED <<given, idx, deployment, deployments, rcs, replicaSets>>

\* dc.Spec.Paused = true; _, err = ...Update(dc); if err != nil { return err }
PauseDC ==
  /\ pc = "pause"
  /\ dc' = [dc EXCEPT !.paused = TRUE]
  /\ \E err \in {"nil"} \cup UpdateErrors :
       /\ log' = Append(log, Entry("update", dc.name, err))
       /\ IF err = "nil"
            THEN /\ dcs' = [dcs EXCEPT ![dc.name] = dc']
                 /\ pc' = "convert"
                 /\ result' = result
                 /\ errCtx' = errCtx
            ELSE /\ dcs' = dcs
                 /\ pc' = "done"
                 /\ result' = err
                 /\ errCtx' \in {"", dc.name}
  /\ UNCHANGED <<given, idx, deployment, deployments, rcs, replicaSets>>

\* Convert that un-pauses the config again when the converter fails.
Convert_Rollback ==
  /\ pc = "convert"
  /\ IF ~convertSet
       THEN /\ log' = log
            /\ pc' = "done"
            /\ result' = "panic"
            /\ errCtx' = errCtx
            /\ dcs' = dcs
       ELSE \E out \in {"nil", "deref"} \cup ConvertErrors :
              /\ log' = Append(log, Entry("convert", dc.name, IF out = "deref" THEN "panic" ELSE out))
              /\ pc' = IF out = "nil" THEN "forcePause" ELSE "done"
              /\ result' = IF out = "nil" THEN result
                           ELSE IF out = "deref" THEN "panic" ELSE out
              /\ errCtx' \in (IF out \in ConvertErrors THEN {"", dc.name} ELSE {errCtx})
              /\ dcs' = IF out \in ConvertErrors
                          THEN [dcs EXCEPT ![dc.name].paused = FALSE]
                          ELSE dcs
  /\ deployment' = NilDeployment
  /\ UNCHANGED <<given, idx, dc, deployments, rcs, replicaSets>>

\* var deployment *appsv1.Deployment; err = m.convert(dc, deployment);
\* if err != nil { return err }
\* The pointer is passed by value and is nil: a converter cannot hand a
\* Deployment back through it.  It returns an error, returns nil leaving the
\* caller's pointer nil, or panics storing through the nil target.  With the
\* field unset the call itself panics.
Convert ==
  /\ pc = "convert"
  /\ IF ~convertSet
       THEN /\ log' = log
            /\ pc' = "done"
            /\ result' = "panic"
            /\ errCtx' = errCtx
       ELSE \E out \in {"nil", "deref"} \cup ConvertErrors :
              /\ log' = Append(log, Entry("convert", dc.name, IF out = "deref" THEN "panic" ELSE out))
              /\ pc' = IF out = "nil" THEN "forcePause" ELSE "done"
              /\ result' = IF out = "nil" THEN result
                           ELSE IF out = "deref" THEN "panic" ELSE out
              /\ errCtx' \in (IF out \in ConvertErrors THEN {"", dc.name} ELSE {errCtx})
  /\ deployment' = NilDeployment
  /\ UNCHANGED <<given, idx, dc, stores>>

\* deployment.Spec.Paused = true
ForcePause ==
  /\ pc = "forcePause"
  /\ IF deployment.isNil
       THEN /\ pc' = "done"
            /\ result' = "panic"
            /\ deployment' = deployment
       ELSE /\ pc' = "create"
            /\ result' = result
            /\ deployment' = [deployment EXCEPT !.paused = TRUE]
  /\ UNCHANGED <<given, idx, dc, stores, log, errCtx>>

Next ==
  \/ ReturnNil
  \/ GetDC
  \/ PauseDC
  \/ Convert
  \/ ForcePause

Spec == Init /\ [][Next]_vars

\* ------------------------------------------------- functions on their own
\* Validate: os.Args is the program name followed by the command line
\* tokens; every token after the program name becomes a name.
Validate(osArgs) ==
  IF Len(osArgs) = 1
    THEN [err |-> "usage", names |-> <<>>]
    ELSE [err |-> "nil", names |-> Tail(osArgs)]

Tokens == {"-n", "demo", "web"}

ArgLists == UNION {[1..k -> Tokens] : k \in 0..MaxArgs}

\* The converter of the design: the field m.convert has no implementation
\* in the program.  Pod template, replica count and selector are copied,
\* Rolling and Recreate map to the native strategies, an image-change
\* trigger or another strategy is refused, paused is left false.
NoNative ==
  [isNil |-> TRUE, name |-> "", template |-> "", replicas |-> 0, selector |-> "",
   strategy |-> "", maxSurge |-> 0, paused |-> FALSE]

NativeStrategy(st) == IF st = "Rolling" THEN "RollingUpdate" ELSE "Recreate"

\* ConvertFn with the image-change trigger dropped silently.
ConvertFn_DropTrigger(l) ==
  IF l.strategy \notin {"Rolling", "Recreate"}
    THEN [err |-> "UnsupportedStrategy", out |-> NoNative]
    ELSE [err |-> "nil",
          out |-> [isNil |-> FALSE, name |-> l.name, template |-> l.template,
                   replicas |-> l.replicas, selector |-> l.selector,
                   strategy |-> NativeStrategy(l.strategy),
                   maxSurge |-> IF l.strategy = "Rolling" THEN l.maxSurge ELSE 0,
                   paused |-> FALSE]]

ConvertFn(l) ==
  IF l.strategy \notin {"Rolling", "Recreate"} \/ "ImageChange" \in l.triggers
    THEN [err |-> "UnsupportedStrategy", out |-> NoNative]
    ELSE [err |-> "nil",
          out |-> [isNil |-> FALSE, name |-> l.name, template |-> l.template,
                   replicas |-> l.replicas, selector |-> l.selector,
                   strategy |-> NativeStrategy(l.strategy),
                   maxSurge |-> IF l.strategy = "Rolling" THEN l.maxSurge ELSE 0,
                   paused |-> FALSE]]

LegacyConfigs ==
  [name : {"web"}, template : {"t1", "t2"}, replicas : 0..MaxReplicas,
   selector : {"s1", "s2"}, strategy : {"Rolling", "Recreate", "Custom"},
   maxSurge : {0, 1}, triggers : SUBSET {"ConfigChange", "ImageChange"},
   paused : BOOLEAN]

\* The history migrator of the design: the field m.migrateHistory has no
\* implementation in the program.  A replication controller is identified
\* by name (a number standing for its rank in lexicographic order).
Snapshots ==
  [name : 1..MaxSnaps, ordinal : 1..MaxRevision, ts : {1, 2},
   replicas : {0, 3}, template : {"t1", "t2"}]

SnapshotLists ==
  UNION {{q \in [1..k -> Snapshots] :
            \A i, j \in 1..k : i # j => q[i].name # q[j].name} : k \in 0..MaxSnaps}

Target == [name |-> "web", template |-> "t0"]

\* Order of the history: legacy ordinal, then creation time, then name.
Before(a, b) ==
  \/ a.ordinal < b.ordinal
  \/ a.ordinal = b.ordinal /\ a.ts < b.ts
  \/ a.ordinal = b.ordinal /\ a.ts = b.ts /\ a.name < b.name

RECURSIVE Insert(_, _)
Insert(x, q) ==
  IF q = <<>> THEN <<x>>
  ELSE IF Before(x, Head(q)) THEN <<x>> \o q
  ELSE <<Head(q)>> \o Insert(x, Tail(q))

RECURSIVE SortSnapshots(_)
SortSnapshots(q) ==
  IF q = <<>> THEN <<>> ELSE Insert(Head(q), SortSnapshots(Tail(q)))

Artifact(target, snap, i) ==
  [deployment |-> target.name, ordinal |-> i, replicas |-> 0,
   template |-> snap.template, source |-> snap.name]

\* MigrateHistoryFn that numbers the snapshots in the order the gateway
\* returned them.
MigrateHistoryFn_NoSort(target, snaps, existing) ==
  IF \E i \in 1..Len(snaps) : i \in existing
    THEN [err |-> "AlreadyExists", artifacts |-> <<>>]
    ELSE [err |-> "nil",
          artifacts |-> [i \in 1..Len(snaps) |-> Artifact(target, snaps[i], i)]]

\* MigrateHistoryFn that builds every artifact from the target's current
\* template and keeps the snapshot's replica count.
MigrateHistoryFn_FromTarget(target, snaps, existing) ==
  LET sorted == SortSnapshots(snaps) IN
  IF \E i \in 1..Len(sorted) : i \in existing
    THEN [err |-> "AlreadyExists", artifacts |-> <<>>]
    ELSE [err |-> "nil",
          artifacts |-> [i \in 1..Len(sorted) |->
                           [Artifact(target, sorted[i], i) EXCEPT
                              !.template = target.template,
                              !.replicas = sorted[i].replicas]]]

MigrateHistoryFn(target, snaps, existing) ==
  LET sorted == SortSnapshots(snaps) IN
  IF \E i \in 1..Len(sorted) : i \in existing
    THEN [err |-> "AlreadyExists", artifacts |-> <<>>]
    ELSE [err |-> "nil",
          artifacts |-> [i \in 1..Len(sorted) |-> Artifact(target, sorted[i], i)]]

FnInput(op, in) == [op |-> op, in |-> in, out |-> <<>>, done |-> FALSE]

InitFn ==
  /\ names = <<>>
  /\ convertSet = FALSE
  /\ idx = 1
  /\ pc = "fn"
  /\ result = "running"
  /\ dc = NoDC
  /\ deployment = NilDeployment
  /\ dcs = [n \in Names |-> NoDC]
  /\ deployments = [n \in Names |-> NoDeployment]
  /\ rcs = {}
  /\ replicaSets = {}
  /\ log = <<>>
  /\ errCtx = ""
  /\ dcs0 = dcs
  /\ \/ \E a \in ArgLists : fn = FnInput("validate", <<"migrate-to-deployment">> \o a)
     \/ \E l \in LegacyConfigs : fn = FnInput("convert", l)
     \/ \E q \in SnapshotLists, e \in {{}, {1}} :
          fn = FnInput("migrateHistory", [target |-> Target, snaps |-> q, existing |-> e])

ApplyValidate ==
  /\ fn.op = "validate"
  /\ ~fn.done
  /\ fn' = [fn EXCEPT !.out = Validate(fn.in), !.done = TRUE]
  /\ UNCHANGED <<names, convertSet, idx, pc, result, dc, deployment, stores, log,
                 errCtx, dcs0>>

ApplyConvert ==
  /\ fn.op = "convert"
  /\ ~fn.done
  /\ fn' = [fn EXCEPT !.out = ConvertFn(fn.in), !.done = TRUE]
  /\ UNCHANGED <<names, convertSet, idx, pc, result, dc, deployment, stores, log,
                 errCtx, dcs0>>

ApplyMigrateHistory ==
  /\ fn.op = "migrateHistory"
  /\ ~fn.done
  /\ fn' = [fn EXCEPT
              !.out = MigrateHistoryFn(fn.in.target, fn.in.snaps, fn.in.existing),
              !.done = TRUE]
  /\ UNCHANGED <<names, convertSet, idx, pc, result, dc, deployment, stores, log,
                 errCtx, dcs0>>

NextFn ==
  \/ ApplyValidate
  \/ ApplyConvert
  \/ ApplyMigrateHistory

SpecFn == InitFn /\ [][NextFn]_vars

\* ------------------------------------------------------------ properties
Stopped == result # "running"

\* No call issued so far has returned an error.
NoStepError == \A k \in DOMAIN log : log[k].err = "nil"

\* Number of successful calls of kind op for name n.
Count(op, n) == Cardinality({k \in DOMAIN log : log[k] = Entry(op, n, "nil")})

NamesSet == {names[i] : i \in DOMAIN names}

\* C1 (forced pause): whenever the converter has returned without error,
\* the next statement of Run leaves it with a Deployment value whose paused
\* flag is true, ready to be passed to Create.
C1_ForcedPause ==
  [][pc = "forcePause" =>
       (pc' = "create" /\ ~deployment'.isNil /\ deployment'.paused)]_vars

C4_FailStopNoRollback ==
  [][/\ (result = "running" /\ result' \in Errors) =>
          /\ UNCHANGED stores
          /\ Len(log') = Len(log) + 1
          /\ log'[Len(log')].err = result'
     /\ (result \in Errors) => UNCHANGED <<stores, log, result>>]_vars

\* Witness of C4: the converter failed for the first of two names after
\* the pause was persisted; the config is still paused and no further call
\* was issued.
C4_Witness ==
  /\ result = "UnsupportedStrategy"
  /\ Len(names) = 2
  /\ Len(log) = 3
  /\ log[2] = Entry("update", names[1], "nil")
  /\ dcs[names[1]].paused

\* C5 (failure scenario): when fetch, pause and convert succeeded for a
\* name whose Deployment already exists, Run ends with AlreadyExists, the
\* config is persisted paused and nothing was listed or migrated.
C5_AlreadyExistsScenario ==
  (/\ Stopped
   /\ Len(log) = 3
   /\ NoStepError
   /\ deployments[log[3].name].exists)
  => (result = "AlreadyExists" /\ dcs[log[3].name].paused)

\* C6 (completion or failure): Run ends either returning nil with all six
\* steps done for every name, or returning the error of the failed call.
C6_CompletionOrFailure ==
  Stopped =>
    \/ result = "nil" /\ NoStepError /\ Len(log) = Len(Steps) * Len(names)
    \/ result \in Errors /\ log # <<>> /\ log[Len(log)].err = result

\* C7 (one Deployment per config): when Run has ended and no call returned
\* an error, exactly one create succeeded for every name of the list.
C7_ExactlyOneDeployment ==
  (Stopped /\ NoStepError) => \A n \in NamesSet : Count("create", n) = 1

\* C8 (end-to-end result): when Run has ended and no call returned an
\* error, every name of the list has its config persisted paused, a paused
\* Deployment with the config's replica count, and one zero-replica history
\* object per replication controller, numbered 1..N.
C8_EndToEnd ==
  (Stopped /\ NoStepError) =>
    \A n \in NamesSet :
      /\ dcs[n].paused
      /\ deployments[n].exists
      /\ deployments[n].paused
      /\ deployments[n].replicas = dcs[n].replicas
      /\ {a.ordinal : a \in {b \in replicaSets : b.deployment = n}}
           = 1..Cardinality({r \in rcs : r.config = n})
      /\ \A a \in replicaSets : a.replicas = 0

\* C9 (snapshots read-only, no deletes): no step changes the replication
\* controllers, and no step removes a config or a Deployment.
C9_SnapshotsReadOnly ==
  [][/\ rcs' = rcs
     /\ \A n \in Names : /\ dcs[n].exists => dcs'[n].exists
                         /\ deployments[n].exists => deployments'[n].exists]_vars

\* Witness of C9: Run has persisted a write (the pause) for a config that
\* has replication controllers.
C9_Witness ==
  \E k \in DOMAIN log :
    /\ log[k].op = "update"
    /\ log[k].err = "nil"
    /\ \E r \in rcs : r.config = log[k].name

\* C10 (write footprint): when Run has ended and no call returned an error,
\* it has issued for every name exactly one update, which persisted the
\* paused flag, and exactly one create.
C10_WriteFootprint ==
  (Stopped /\ NoStepError) =>
    \A n \in NamesSet :
      /\ Count("update", n) = 1
      /\ dcs[n].paused
      /\ Count("create", n) = 1

C12_RetryOneShot ==
  (/\ Stopped
   /\ NoStepError
   /\ Len(log) >= 2
   /\ dcs0[names[1]].paused
   /\ deployments[names[1]].exists)
  => (result = "AlreadyExists" /\ dcs = dcs0)

\* C13 (empty history): when Run has ended with no call returning an error
\* and the first name has no replication controllers, the history migrator
\* was invoked for that name.
C13_EmptyHistory ==
  (/\ Stopped
   /\ NoStepError
   /\ names # <<>>
   /\ ~\E r \in rcs : r.config = names[1])
  => Count("migrateHistory", names[1]) >= 1

\* C17 (create gets the converter's output): once the converter has
\* returned without error, the local deployment is the Deployment converted
\* from the config fetched in this iteration.
C17_ConverterOutputSubmitted ==
  pc = "forcePause" =>
    /\ ~deployment.isNil
    /\ deployment.name = dc.name
    /\ deployment.replicas = dc.replicas

\* C18 (errors carry the resource): an error returned by Run names the
\* resource of the call that failed.
C18_ErrorCarriesName ==
  result \in Errors => errCtx = log[Len(log)].name

\* C19 (history isolation): when Run has ended with no call returning an
\* error, the replication controllers of every name were listed once and
\* the history attached to the name's Deployment comes from exactly the
\* replication controllers labelled with that name.
C19_HistoryIsolation ==
  (Stopped /\ NoStepError) =>
    \A n \in NamesSet :
      /\ Count("list", n) = 1
      /\ {a.source : a \in {b \in replicaSets : b.deployment = n}}
           = {r \in rcs : r.config = n}

\* The snapshot of list q named nm.
SnapOf(q, nm) == CHOOSE x \in {q[i] : i \in DOMAIN q} : x.name = nm

Perms(n) == {f \in [1..n -> 1..n] : \A i, j \in 1..n : i # j => f[i] # f[j]}

MigrateDone == fn.op = "migrateHistory" /\ fn.done /\ fn.out.err = "nil"

\* C14 (history ordering): migrateHistory makes one artifact per snapshot,
\* numbered 1..N by position in the order of legacy ordinal, then creation
\* time, then name, and every permutation of the list gives the same
\* artifacts.
C14_HistoryOrdering ==
  MigrateDone =>
    LET q == fn.in.snaps
        a == fn.out.artifacts
        N == Len(q)
    IN /\ Len(a) = N
       /\ {a[i].source : i \in 1..N} = {q[i].name : i \in 1..N}
       /\ \A i \in 1..N : a[i].ordinal = i
       /\ \A i, j \in 1..N :
            i < j => Before(SnapOf(q, a[i].source), SnapOf(q, a[j].source))
       /\ \A f \in Perms(N) :
            MigrateHistoryFn(fn.in.target, [i \in 1..N |-> q[f[i]]],
                             fn.in.existing).artifacts = a

\* Witness of C14: two snapshots with the same ordinal and creation time
\* came in the wrong order of names and were numbered by name.
C14_Witness ==
  /\ MigrateDone
  /\ Len(fn.in.snaps) = 2
  /\ fn.in.snaps[1].ordinal = fn.in.snaps[2].ordinal
  /\ fn.in.snaps[1].ts = fn.in.snaps[2].ts
  /\ fn.in.snaps[1].name > fn.in.snaps[2].name
  /\ fn.out.artifacts[1].source = fn.in.snaps[2].name

\* C15 (zero-replica artifacts): every artifact has replica count 0 and the
\* pod template of its source snapshot.
C15_ZeroReplicaArtifacts ==
  MigrateDone =>
    \A i \in DOMAIN fn.out.artifacts :
      /\ fn.out.artifacts[i].replicas = 0
      /\ fn.out.artifacts[i].template
           = SnapOf(fn.in.snaps, fn.out.artifacts[i].source).template

\* Witness of C15: an artifact was made from a snapshot that has replicas
\* and a template other than the target's.
C15_Witness ==
  /\ MigrateDone
  /\ \E i \in DOMAIN fn.out.artifacts :
       /\ SnapOf(fn.in.snaps, fn.out.artifacts[i].source).replicas > 0
       /\ fn.out.artifacts[i].replicas = 0
       /\ fn.out.artifacts[i].template # fn.in.target.template

\* C16 (conversion totality): a config with strategy Rolling or Recreate
\* and no image-change trigger converts to a Deployment with the same pod
\* template, replica count and selector and the corresponding strategy; a
\* config with an image-change trigger is refused with UnsupportedStrategy
\* and yields no Deployment.
C16_ConversionTotality ==
  (fn.op = "convert" /\ fn.done) =>
    LET l == fn.in
        r == fn.out
    IN /\ (l.strategy \in {"Rolling", "Recreate"} /\ "ImageChange" \notin l.triggers) =>
            /\ r.err = "nil"
            /\ ~r.out.isNil
            /\ r.out.template = l.template
            /\ r.out.replicas = l.replicas
            /\ r.out.selector = l.selector
            /\ r.out.strategy = (IF l.strategy = "Rolling" THEN "RollingUpdate" ELSE "Recreate")
       /\ ("ImageChange" \in l.triggers) =>
            (r.err = "UnsupportedStrategy" /\ r.out.isNil)

\* Witness of C16: a rolling config with replicas was converted.
C16_Witness ==
  /\ fn.op = "convert"
  /\ fn.done
  /\ fn.in.strategy = "Rolling"
  /\ fn.in.replicas > 0
  /\ fn.out.err = "nil"
  /\ fn.out.out.strategy = "RollingUpdate"

\* The positional arguments of a command line: -n takes the token after it
\* as the namespace.
RECURSIVE Positional(_)
Positional(a) ==
  IF a = <<>> THEN <<>>
  ELSE IF Head(a) = "-n"
    THEN (IF Len(a) >= 2 THEN Positional(Tail(Tail(a))) ELSE <<>>)
    ELSE <<Head(a)>> \o Positional(Tail(a))

\* C20 (zero names is a usage error): validation fails when the command
\* line has no positional name, and otherwise the names to process are the
\* positional arguments in order.
C20_ZeroNamesUsageError ==
  (fn.op = "validate" /\ fn.done) =>
    LET pos == Positional(Tail(fn.in)) IN
      IF pos = <<>>
        THEN fn.out.err = "usage"
        ELSE fn.out.err = "nil" /\ fn.out.names = pos
====
